---------------------------- MODULE Spec2Model ----------------------------
(***************************************************************************)
(* State machine of the detection pipeline of calamansi-detection:        *)
(* the /api/detect handler (src/unnamed/part_000, lines 351-569), the     *)
(* upstream client callRoboflowAPI with its circuit breaker (lines        *)
(* 197-285) and the SQLite ledger it consults (src/db.js).                 *)
(*                                                                         *)
(* Node runs every callback to completion, so one action is one           *)
(* synchronous run of the code between two suspension points:             *)
(*   Detect      handler entry up to `await optimizeImage`  (356-410)     *)
(*   StartCalls  resumption up to `await Promise.all`       (410-432)     *)
(*   CallReturn  an upstream call settles; its continuation in            *)
(*               callRoboflowAPI (240-284) and, when Promise.all          *)
(*               settles with it, the rest of the handler (434-567),      *)
(*               which runs in the same microtask drain                   *)
(*   OrphanReturn  the same continuation of callRoboflowAPI for a call    *)
(*               whose handler has already returned                       *)
(*   Tick        Date.now() advances                                      *)
(***************************************************************************)
EXTENDS Integers, Sequences, FiniteSets, TLC

(***************************************************************************)
(* Bounds of the model.  The source sets MAX_CONCURRENT_UPLOADS = 10      *)
(* (part_000:20), DAILY_API_LIMIT = env or 5000 (part_000:21) and passes  *)
(* maxRequests = 20 to checkRateLimit (part_000:382); the model keeps the *)
(* names and scales the values so that every ceiling is reached.          *)
(***************************************************************************)
MAX_CONCURRENT_UPLOADS == 2
DAILY_API_LIMIT == 4
RATE_LIMIT_MAX == 2
NumRequests == 3
MaxInFlight == 4
MaxDetections == 4
TickMs == 30000
MaxTime == 60000

(* Program constants. *)
FAILURE_THRESHOLD == 5
COOLDOWN_MS == 60000
NOT_CALAMANSI_CONFIDENCE == 7000
DEFAULT_THRESHOLD == 5000

Requests == 1..NumRequests
Ips == {1}

VARIABLES
  env,              \* process.env: [apiKey, model1Url, model2Url, t1, t2]
  now,              \* Date.now(), in ms since start
  activeUploads,    \* the Map's key set (part_000:19)
  apiFailureCount,  \* part_000:24
  circuitOpen,      \* part_000:25
  lastFailureTime,  \* part_000:26
  db,               \* the ledger: [total_calls, detections, blocked]
  pc,               \* per request: "idle", "optimizing", "awaiting"
  reqIp,            \* req.ip of a request in flight
  call,             \* per request, per endpoint: "none", "pending", "ok"
  orphans           \* upstream calls in flight whose handler has returned

vars == <<env, now, activeUploads, apiFailureCount, circuitOpen,
          lastFailureTime, db, pc, reqIp, call, orphans>>

-----------------------------------------------------------------------------
(* Strings are sequences of one-character strings, so that toLowerCase and *)
(* includes are computed and not assumed.                                  *)

Upper == <<"A","B","C","D","E","F","G","H","I","J","K","L","M",
           "N","O","P","Q","R","S","T","U","V","W","X","Y","Z">>
Lower == <<"a","b","c","d","e","f","g","h","i","j","k","l","m",
           "n","o","p","q","r","s","t","u","v","w","x","y","z">>

toLowerCaseChar(c) ==
  IF \E i \in 1..26 : Upper[i] = c
  THEN Lower[CHOOSE i \in 1..26 : Upper[i] = c]
  ELSE c

toLowerCase(s) == [i \in 1..Len(s) |-> toLowerCaseChar(s[i])]

includes(s, sub) ==
  \E i \in 0..(Len(s) - Len(sub)) :
    \A j \in 1..Len(sub) : s[i + j] = sub[j]


-----------------------------------------------------------------------------
(* The ledger (src/db.js).  db.total_calls is api_calls.total_calls of    *)
(* today's row, db.detections[ip] the number of rows of table detections  *)
(* with success = 1 for ip (the 60 minute window of getRecentDetections   *)
(* is longer than MaxTime, so no row leaves it), db.blocked[ip] the       *)
(* column rate_limits.blocked.  rate_limits.request_count is written and  *)
(* never read, and is left out.  Every statement of better-sqlite3 can    *)
(* throw; the argument `fault` says whether and where it does.            *)

ReadFaults == {"none", "error"}
LogFaults == {"none", "insert", "increment"}

getAPIUsageToday(d, fault) ==
  IF fault = "none" THEN d.total_calls ELSE 0

(* logDetection: the insert, then for success the increment by 2. *)
logDetection(d, ip, success, fault) ==
  IF fault = "insert" THEN d
  ELSE IF ~success THEN d
  ELSE IF fault = "increment"
       THEN [d EXCEPT !.detections[ip] = @ + 1]
       ELSE [d EXCEPT !.detections[ip] = @ + 1, !.total_calls = @ + 2]

(* Mutant of db.js 184-186: the catch block rethrows. *)
logDetectionThrowsOnFault(fault) == fault # "none"

(* db.js 167-186: the body of logDetection is one try/catch, so no fault  *)
(* of a statement reaches the caller.                                     *)
logDetectionThrows(fault) == FALSE

(* Mutant of line 208: `>` for `>=`. *)
OverLimitStrict(count, maxRequests) == count > maxRequests

OverLimit(count, maxRequests) == count >= maxRequests

(* Mutant of db.js 210: the block at three times the ceiling. *)
SeverelyOverLimitThrice(count, maxRequests) == count >= maxRequests * 3

SeverelyOverLimit(count, maxRequests) == count >= maxRequests * 2

(* Mutant of db.js 220-223: the check fails closed. *)
checkRateLimitFailsClosed(d, ip, maxRequests, fault) ==
  LET count == d.detections[ip] IN
  IF fault # "none"
  THEN [allowed |-> FALSE, reason |-> "Rate limit check failed", db |-> d]
  ELSE IF d.blocked[ip]
  THEN [allowed |-> FALSE, reason |-> "IP blocked due to abuse", db |-> d]
  ELSE IF OverLimit(count, maxRequests)
  THEN IF SeverelyOverLimit(count, maxRequests)
       THEN [allowed |-> FALSE,
             reason |-> "IP blocked due to excessive requests",
             db |-> [d EXCEPT !.blocked[ip] = TRUE]]
       ELSE [allowed |-> FALSE, reason |-> "Rate limit exceeded", db |-> d]
  ELSE [allowed |-> TRUE, reason |-> "", db |-> d]

checkRateLimit(d, ip, maxRequests, fault) ==
  LET count == d.detections[ip] IN
  IF fault # "none"
  THEN [allowed |-> TRUE, reason |-> "", db |-> d]
  ELSE IF d.blocked[ip]
  THEN [allowed |-> FALSE, reason |-> "IP blocked due to abuse", db |-> d]
  ELSE IF OverLimit(count, maxRequests)
  THEN IF SeverelyOverLimit(count, maxRequests)
       THEN [allowed |-> FALSE,
             reason |-> "IP blocked due to excessive requests",
             db |-> [d EXCEPT !.blocked[ip] = TRUE]]
       ELSE [allowed |-> FALSE, reason |-> "Rate limit exceeded", db |-> d]
  ELSE [allowed |-> TRUE, reason |-> "", db |-> d]

-----------------------------------------------------------------------------
(* The circuit breaker and callRoboflowAPI (part_000:197-285).            *)
(* A breaker value is [count, open, last] for apiFailureCount,            *)
(* circuitOpen and lastFailureTime.                                        *)

Breaker == [count |-> apiFailureCount, open |-> circuitOpen,
            last |-> lastFailureTime]

(* Mutant of line 201: the cooldown taken in seconds. *)
CooldownActiveInSeconds(timeSinceFailure) == timeSinceFailure < 60

CooldownActive(timeSinceFailure) == timeSinceFailure < COOLDOWN_MS

(* Mutant of line 258: `>` for `>=`. *)
ThresholdReachedLate(count) == count > FAILURE_THRESHOLD

ThresholdReached(count) == count >= FAILURE_THRESHOLD

(* Mutant of lines 205-206: the circuit is closed and the count kept. *)
callRoboflowAPIStartKeepsCount(b, apiKey, modelUrl, t) ==
  IF b.open /\ CooldownActive(t - b.last)
  THEN [b |-> b,
        throw |-> <<"Service temporarily unavailable - too many failures">>]
  ELSE LET b1 == [b EXCEPT !.open = FALSE]
       IN IF ~apiKey THEN [b |-> b1, throw |-> <<"API key not configured">>]
          ELSE IF ~modelUrl
               THEN [b |-> b1, throw |-> <<"Model URL not configured">>]
               ELSE [b |-> b1, throw |-> <<>>]

(* Mutant of lines 200-203: the refusal is timed as a failure. *)
callRoboflowAPIStartTimesRefusal(b, apiKey, modelUrl, t) ==
  IF b.open /\ CooldownActive(t - b.last)
  THEN [b |-> [b EXCEPT !.last = t],
        throw |-> <<"Service temporarily unavailable - too many failures">>]
  ELSE LET b1 == IF b.open THEN [b EXCEPT !.open = FALSE, !.count = 0]
                           ELSE b
       IN IF ~apiKey THEN [b |-> b1, throw |-> <<"API key not configured">>]
          ELSE IF ~modelUrl
               THEN [b |-> b1, throw |-> <<"Model URL not configured">>]
               ELSE [b |-> b1, throw |-> <<>>]

(* Mutant of lines 205-206: half-open, one failure away from reopening. *)
callRoboflowAPIStartHalfOpen(b, apiKey, modelUrl, t) ==
  IF b.open /\ CooldownActive(t - b.last)
  THEN [b |-> b,
        throw |-> <<"Service temporarily unavailable - too many failures">>]
  ELSE LET b1 == IF b.open
                 THEN [b EXCEPT !.open = FALSE,
                                !.count = FAILURE_THRESHOLD - 1]
                 ELSE b
       IN IF ~apiKey THEN [b |-> b1, throw |-> <<"API key not configured">>]
          ELSE IF ~modelUrl
               THEN [b |-> b1, throw |-> <<"Model URL not configured">>]
               ELSE [b |-> b1, throw |-> <<>>]

(* Lines 198-218: the part of callRoboflowAPI that runs before the        *)
(* request is handed to axios.  throw is the message of the Error thrown, *)
(* or <<>> when the call goes to the network.                             *)
callRoboflowAPIStart(b, apiKey, modelUrl, t) ==
  IF b.open /\ CooldownActive(t - b.last)
  THEN [b |-> b,
        throw |-> <<"Service temporarily unavailable - too many failures">>]
  ELSE LET b1 == IF b.open THEN [b EXCEPT !.open = FALSE, !.count = 0]
                           ELSE b
       IN IF ~apiKey THEN [b |-> b1, throw |-> <<"API key not configured">>]
          ELSE IF ~modelUrl
               THEN [b |-> b1, throw |-> <<"Model URL not configured">>]
               ELSE [b |-> b1, throw |-> <<>>]

(* What the transport hands to axios: a response with an HTTP status, or  *)
(* a transport error with a code and a name.                              *)
Statuses == {200, 201, 400, 401, 403, 429, 500, 600}
TransportErrors ==
  { [code |-> "ECONNABORTED", name |-> "AxiosError"],
    [code |-> "ERR_CANCELED", name |-> "CanceledError"],
    [code |-> "",             name |-> "AbortError"],
    [code |-> "ENOTFOUND",    name |-> "Error"],
    [code |-> "ECONNREFUSED", name |-> "Error"],
    [code |-> "ECONNRESET",   name |-> "Error"] }
TransportOutcomes ==
  { [kind |-> "response", status |-> s, code |-> "", name |-> ""] :
      s \in Statuses }
  \cup
  { [kind |-> "error", status |-> 0, code |-> e.code, name |-> e.name] :
      e \in TransportErrors }

(* Line 234-236. *)
validateStatus(status) == status < 600

(* Line 242. *)
StatusOk(status) == status = 200

(* axios.post: resolves with the response when validateStatus accepts the *)
(* status; rejects with an error that carries the response otherwise, and *)
(* with an error that carries none for a transport error.                 *)
axiosPost(o) ==
  IF o.kind = "response" /\ validateStatus(o.status)
  THEN [resolved |-> TRUE, status |-> o.status, code |-> "", name |-> "",
        response |-> FALSE, message |-> <<>>]
  ELSE IF o.kind = "response"
  THEN [resolved |-> FALSE, status |-> o.status, code |-> "ERR_BAD_RESPONSE",
        name |-> "AxiosError", response |-> TRUE,
        message |-> <<"Request failed with status code ", ToString(o.status)>>]
  ELSE [resolved |-> FALSE, status |-> 0, code |-> o.code, name |-> o.name,
        response |-> FALSE, message |-> <<o.code>>]

(* Lines 240-244: the error caught by the catch block at 251, or none.    *)
(* A resolved response whose status is not 200 is thrown as a plain Error *)
(* with no code and no response.                                          *)
CaughtError(a) ==
  IF a.resolved
  THEN IF StatusOk(a.status)
       THEN [caught |-> FALSE, code |-> "", name |-> "", response |-> FALSE,
             status |-> 0, message |-> <<>>]
       ELSE [caught |-> TRUE, code |-> "", name |-> "Error",
             response |-> FALSE, status |-> 0,
             message |-> <<"HTTP ", ToString(a.status), ": ", "body">>]
  ELSE [caught |-> TRUE, code |-> a.code, name |-> a.name,
        response |-> a.response, status |-> a.status, message |-> a.message]

(* Lines 263-283: the message of the Error rethrown. *)
ClassifyError(e) ==
  IF e.code = "ECONNABORTED" \/ e.name = "AbortError"
  THEN <<"Request timeout">>
  ELSE IF e.code = "ENOTFOUND" THEN <<"DNS lookup failed">>
  ELSE IF e.code = "ECONNREFUSED" THEN <<"Connection refused">>
  ELSE IF e.response
  THEN IF e.status = 429 THEN <<"API rate limit exceeded">>
       ELSE IF e.status = 401 \/ e.status = 403
            THEN <<"Authentication failed">>
       ELSE IF e.status = 400 THEN <<"Invalid image data">>
       ELSE <<"API request failed with status ", ToString(e.status)>>
  ELSE <<"Network error - ">> \o e.message

(* Mutant of line 247: a success also closes the circuit. *)
RecordSuccessCloses(b) == [b EXCEPT !.count = 0, !.open = FALSE]

(* Mutant of line 247: a success closes the circuit and keeps the count. *)
RecordSuccessClosesOnly(b) == [b EXCEPT !.open = FALSE]

(* Lines 246-261: the breaker after the call settles. *)
RecordSuccess(b) == [b EXCEPT !.count = 0]

(* Mutant of line 255: a failure is timed and not counted. *)
RecordFailureKeepsCount(b, t) == [b EXCEPT !.last = t]

RecordFailure(b, t) ==
  LET n == b.count + 1 IN
  [count |-> n, last |-> t,
   open |-> IF ThresholdReached(n) THEN TRUE ELSE b.open]

(* Lines 223-284: callRoboflowAPI from the moment axios settles.          *)
(* throw is <<>> when the call returns response.data.                     *)
callRoboflowAPISettle(b, o, t) ==
  LET e == CaughtError(axiosPost(o)) IN
  IF e.caught
  THEN [b |-> RecordFailure(b, t), throw |-> ClassifyError(e)]
  ELSE [b |-> RecordSuccess(b), throw |-> <<>>]


(* Lines 287-307: sanitizeError.  safeErrors in its order; a key matches  *)
(* when it is a fragment of the message.                                  *)
safeErrors ==
  << <<"Request timeout", "The request took too long. Please try again.">>,
     <<"API rate limit exceeded",
       "Service limit reached. Please try again in a moment.">>,
     <<"Authentication failed", "Service temporarily unavailable.">>,
     <<"Invalid image data",
       "Invalid image format. Please try a different image.">>,
     <<"DNS lookup failed", "Cannot reach detection service.">>,
     <<"Connection refused", "Detection service not responding.">>,
     <<"API key not configured", "Service configuration error.">>,
     <<"Model URL not configured", "Service configuration error.">>,
     <<"Service temporarily unavailable - too many failures",
       "Service temporarily unavailable. Please try again in a minute.">> >>

Matches(message, key) == \E n \in 1..Len(message) : message[n] = key

(* Mutant of line 306: the message of the error for the fallback. *)
sanitizeErrorRaw(message) ==
  IF \E i \in 1..Len(safeErrors) : Matches(message, safeErrors[i][1])
  THEN safeErrors[CHOOSE i \in 1..Len(safeErrors) :
                    /\ Matches(message, safeErrors[i][1])
                    /\ \A j \in 1..(i - 1) :
                         ~Matches(message, safeErrors[j][1])][2]
  ELSE message[Len(message)]

sanitizeError(message) ==
  IF \E i \in 1..Len(safeErrors) : Matches(message, safeErrors[i][1])
  THEN safeErrors[CHOOSE i \in 1..Len(safeErrors) :
                    /\ Matches(message, safeErrors[i][1])
                    /\ \A j \in 1..(i - 1) :
                         ~Matches(message, safeErrors[j][1])][2]
  ELSE "An error occurred during processing."

-----------------------------------------------------------------------------
(* The decision (part_000:436-543).  A confidence is the fraction times   *)
(* 10000; response.data is Null or [predictions, image], image saying     *)
(* whether the field image is present.                                    *)

Null == [null |-> TRUE]

NOT == <<"n","o","t">>
CALAMANSI == <<"c","a","l","a","m","a","n","s","i">>
NOT_CALAMANSI == <<"N","o","t"," ">> \o CALAMANSI
LEAF_SPOT == <<"l","e","a","f","_","s","p","o","t">>

Pred(c, conf) == [class |-> c, confidence |-> conf]
Data(preds, img) == [null |-> FALSE, predictions |-> preds, image |-> img]

Model1Data ==
  { Null,
    Data(<<>>, TRUE),
    Data(<<Pred(NOT_CALAMANSI, 8500)>>, TRUE),
    Data(<<Pred(CALAMANSI, 4000)>>, TRUE),
    Data(<<Pred(LEAF_SPOT, 3000), Pred(CALAMANSI, 9000)>>, TRUE) }

Model2Data ==
  { Data(<<>>, TRUE),
    Data(<<Pred(LEAF_SPOT, 3000)>>, TRUE),
    Data(<<Pred(LEAF_SPOT, 7500), Pred(CALAMANSI, 7500)>>, TRUE),
    Data(<<Pred(LEAF_SPOT, 7500)>>, FALSE) }

(* Mutant of lines 445-447 and 484-486: >= for >, the last of equals. *)
RECURSIVE reduceMaxLast(_, _, _)
reduceMaxLast(preds, i, max) ==
  IF i > Len(preds) THEN max
  ELSE reduceMaxLast(preds, i + 1,
                     IF preds[i].confidence >= max.confidence THEN preds[i]
                                                              ELSE max)

(* Lines 445-447 and 484-486: reduce with the first entry as seed. *)
RECURSIVE reduceMax(_, _, _)
reduceMax(preds, i, max) ==
  IF i > Len(preds) THEN max
  ELSE reduceMax(preds, i + 1,
                 IF preds[i].confidence > max.confidence THEN preds[i]
                                                           ELSE max)

(* Mutant of lines 445-447: the first entry taken for the top one. *)
topPredictionFirst(preds) == preds[1]

topPrediction(preds) == reduceMax(preds, 1, preds[1])

(* Lines 453 and 488: parseFloat(process.env.X) || 0.50, an unset         *)
(* variable being -1 here (parseFloat gives NaN).                         *)
Unset == -1
threshold(envValue) ==
  IF envValue = Unset \/ envValue = 0 THEN DEFAULT_THRESHOLD ELSE envValue

(* Mutant of line 454: the three spellings only, without includes('not'). *)
isNotCalamansiExact(predictedClass) ==
  \/ predictedClass = <<"n","o","t"," ">> \o CALAMANSI
  \/ predictedClass = <<"n","o","t","-">> \o CALAMANSI
  \/ predictedClass = <<"n","o","t","_">> \o CALAMANSI

(* Lines 454-457. *)
isNotCalamansi(predictedClass) ==
  \/ includes(predictedClass, NOT)
  \/ predictedClass = <<"n","o","t"," ">> \o CALAMANSI
  \/ predictedClass = <<"n","o","t","-">> \o CALAMANSI
  \/ predictedClass = <<"n","o","t","_">> \o CALAMANSI

(* What the handler answers: the response type, its HTTP status, the      *)
(* message of the error caught (or <<>>), and the logDetection call made: *)
(* "none", "failure" (success = false) or "success" (success = true).     *)
Outcome(type, status, error, log) ==
  [type |-> type, status |-> status, error |-> error, log |-> log]

(* Lines 545-563: the catch block. *)
Caught(message) == Outcome("server_error", 500, message, "failure")

TYPE_ERROR == <<"TypeError">>

(* Lines 436-543, the checks in the order of the code. *)
Decide(m1, m2, e) ==
  IF m1.null THEN Caught(TYPE_ERROR)
  ELSE IF Len(m1.predictions) = 0
  THEN Outcome("no_predictions_1", 400, <<>>, "failure")
  ELSE
  LET top1 == topPrediction(m1.predictions)
      predictedClass == toLowerCase(top1.class)
      confidence1 == top1.confidence
      threshold1 == threshold(e.t1)
      threshold2 == threshold(e.t2)
  IN
  IF isNotCalamansi(predictedClass) /\ confidence1 > NOT_CALAMANSI_CONFIDENCE
  THEN Outcome("not_calamansi", 400, <<>>, "failure")
  ELSE IF ~isNotCalamansi(predictedClass) /\ confidence1 < threshold1
  THEN Outcome("low_confidence_1", 400, <<>>, "failure")
  ELSE IF m2.null THEN Caught(TYPE_ERROR)
  ELSE IF Len(m2.predictions) = 0
  THEN Outcome("no_predictions_2", 400, <<>>, "failure")
  ELSE
  LET top2 == topPrediction(m2.predictions) IN
  IF top2.confidence < threshold2
  THEN Outcome("low_confidence_2", 400, <<>>, "failure")
  ELSE IF ~m2.image THEN Caught(TYPE_ERROR)
  ELSE Outcome("accepted", 200, <<>>, "success")


-----------------------------------------------------------------------------
(* The state after construction (part_000:19-26, an empty ledger).        *)

Envs ==
  { [apiKey |-> k, model1Url |-> u1, model2Url |-> u2,
     t1 |-> Unset, t2 |-> Unset] : k \in BOOLEAN, u1 \in BOOLEAN,
                                   u2 \in BOOLEAN }

NoCalls == [k \in 1..2 |-> "none"]

Init ==
  /\ env \in Envs
  /\ now = 0
  /\ activeUploads = {}
  /\ apiFailureCount = 0
  /\ circuitOpen = FALSE
  /\ lastFailureTime = 0
  /\ db = [total_calls |-> 0, detections |-> [i \in Ips |-> 0],
           blocked |-> [i \in Ips |-> FALSE]]
  /\ pc = [r \in Requests |-> "idle"]
  /\ reqIp = [r \in Requests |-> 0]
  /\ call = [r \in Requests |-> NoCalls]
  /\ orphans = 0

(* Upstream requests handed to axios and not yet settled. *)
Pending(r) == Cardinality({k \in 1..2 : call[r][k] = "pending"})

InFlight ==
  orphans
  + Cardinality({c \in Requests \X (1..2) : call[c[1]][c[2]] = "pending"})

(* Mutants of line 361: `>` for `>=`, and a ceiling one too low. *)
AtCapacityOffByOne(size) == size > MAX_CONCURRENT_UPLOADS

AtCapacityEarly(size) == size + 1 >= MAX_CONCURRENT_UPLOADS

(* Line 361. *)
AtCapacity(size) == size >= MAX_CONCURRENT_UPLOADS

(* Mutant of line 373: `>` for `>=`. *)
BudgetReachedStrict(totalCalls) == totalCalls > DAILY_API_LIMIT

(* Mutant of line 373: one more pair of calls let through. *)
BudgetReachedLate(totalCalls) == totalCalls >= DAILY_API_LIMIT + 2

(* Line 373. *)
BudgetReached(totalCalls) == totalCalls >= DAILY_API_LIMIT

(* Mutant of line 369: the entry is never set. *)
AcquireNothing(au, r) == au

(* Mutant of line 566: the entry is never deleted. *)
ReleaseNothing(au, r) == au

(* Line 369: activeUploads.set(uploadId, true).  The upload id is taken   *)
(* to be unique, so it is the request's identity.                         *)
Acquire(au, r) == au \cup {r}

(* Line 566: activeUploads.delete(uploadId). *)
Release(au, r) == au \ {r}

(***************************************************************************)
(* A run of the handler is a function of the state and of what the run    *)
(* reads: it gives the state it leaves and, when the handler returns in   *)
(* this run, the response.  The fields of a run:                           *)
(*   done      the handler returned (the finally block 564-567 has run)   *)
(*   out       the response, when done                                    *)
(*   au, db, b the map, the ledger and the breaker after the run          *)
(*   acquired  the handler of this request has executed line 369          *)
(*   released  line 566 removed the request's entry                       *)
(*   logs      logDetection calls made for the request in this run        *)
(*   issued    upstream requests handed to axios in this run              *)
(***************************************************************************)
NoOutcome == Outcome("none", 0, <<>>, "none")

(* An error that escapes logDetection escapes the handler: thrown in the  *)
(* try block it reaches the catch block, whose own logDetection call      *)
(* throws again, so that no response is sent.                             *)
Unanswered(out) == Outcome("unanswered", 0, <<"ledger">>, out.log)

Returns(r, au, d, b, ip, out, fault, issued) ==
  [done |-> TRUE,
   out |-> IF out.log # "none" /\ logDetectionThrows(fault)
           THEN Unanswered(out) ELSE out,
   au |-> Release(au, r),
   db |-> IF out.log = "none" THEN d
          ELSE logDetection(d, ip, out.log = "success", fault),
   b |-> b,
   acquired |-> r \in au,
   released |-> r \in au /\ r \notin Release(au, r),
   logs |-> IF out.log = "none" THEN 0 ELSE 1,
   issued |-> issued]

Suspends(r, au, d, b, issued) ==
  [done |-> FALSE, out |-> NoOutcome, au |-> au, db |-> d, b |-> b,
   acquired |-> r \in au, released |-> FALSE, logs |-> 0, issued |-> issued]

(* What a request brings and what the ledger does while it is admitted.   *)
(* The logDetection call of line 384 has success = false, which changes   *)
(* nothing of the ledger that is read, whatever its fault.                *)
DetectInputs ==
  [ip : Ips, usage : ReadFaults, rate : ReadFaults,
   file : BOOLEAN, valid : BOOLEAN]

(* Lines 356-410: the handler from its entry to `await optimizeImage`.    *)
DetectRun(r, in) ==
  IF AtCapacity(Cardinality(activeUploads))
  THEN Returns(r, activeUploads, db, Breaker, in.ip,
               Outcome("capacity_error", 503, <<>>, "none"), "none", 0)
  ELSE
  LET au == Acquire(activeUploads, r)
      rl == checkRateLimit(db, in.ip, RATE_LIMIT_MAX, in.rate)
  IN
  IF BudgetReached(getAPIUsageToday(db, in.usage))
  THEN Returns(r, au, db, Breaker, in.ip,
               Outcome("api_limit_error", 503, <<>>, "none"), "none", 0)
  ELSE IF ~rl.allowed
  THEN Returns(r, au, rl.db, Breaker, in.ip,
               Outcome("rate_limit_error", 429, <<rl.reason>>, "failure"),
               "none", 0)
  ELSE IF ~in.file
  THEN Returns(r, au, rl.db, Breaker, in.ip,
               Outcome("no_file", 400, <<>>, "none"), "none", 0)
  ELSE IF ~in.valid
  THEN Returns(r, au, rl.db, Breaker, in.ip,
               Outcome("invalid_params", 400, <<>>, "none"), "none", 0)
  ELSE Suspends(r, au, rl.db, Breaker, 0)

(* Lines 410-432: the handler from the return of optimizeImage to         *)
(* `await Promise.all`: both calls run lines 198-238 one after the other. *)
(* A call that throws there rejects Promise.all, and the handler's catch  *)
(* block runs before any other callback.                                  *)
StartCallsRun(r) ==
  IF ~env.model1Url \/ ~env.model2Url
  THEN Returns(r, activeUploads, db, Breaker, reqIp[r],
               Outcome("not_configured", 503, <<>>, "none"), "none", 0)
  ELSE
  LET c1 == callRoboflowAPIStart(Breaker, env.apiKey, env.model1Url, now)
      c2 == callRoboflowAPIStart(c1.b, env.apiKey, env.model2Url, now)
      issued == (IF c1.throw = <<>> THEN 1 ELSE 0)
                + (IF c2.throw = <<>> THEN 1 ELSE 0)
  IN
  IF issued = 2
  THEN Suspends(r, activeUploads, db, c2.b, 2)
  ELSE Returns(r, activeUploads, db, c2.b, reqIp[r],
               Caught(IF c1.throw # <<>> THEN c1.throw ELSE c2.throw),
               "none", issued)

(* Mutant of lines 429-432: the join waits for both calls to settle       *)
(* (Promise.allSettled) before it fails.                                  *)
CallReturnRunWaitsForBoth(r, k, o, m1, m2, fault) ==
  LET s == callRoboflowAPISettle(Breaker, o, now) IN
  IF call[r][3 - k] = "pending"
  THEN Suspends(r, activeUploads, db, s.b, 0)
  ELSE IF s.throw # <<>>
  THEN Returns(r, activeUploads, db, s.b, reqIp[r], Caught(s.throw),
               fault, 0)
  ELSE Returns(r, activeUploads, db, s.b, reqIp[r], Decide(m1, m2, env),
               fault, 0)

(* Mutant of lines 545-563: no catch block, so that a call that fails     *)
(* leaves the handler without a response.                                 *)
CallReturnRunUncaught(r, k, o, m1, m2, fault) ==
  LET s == callRoboflowAPISettle(Breaker, o, now) IN
  IF s.throw # <<>>
  THEN Suspends(r, activeUploads, db, s.b, 0)
  ELSE IF call[r][3 - k] = "ok"
  THEN Returns(r, activeUploads, db, s.b, reqIp[r], Decide(m1, m2, env),
               fault, 0)
  ELSE Suspends(r, activeUploads, db, s.b, 0)

(* Lines 240-284 for call k of request r, which settles with o, and, when *)
(* Promise.all settles with it, lines 434-567.  m1 and m2 are the         *)
(* response.data of the two calls, which the handler reads only once both *)
(* calls have returned; fault is the fault of its logDetection call.      *)
CallReturnRun(r, k, o, m1, m2, fault) ==
  LET s == callRoboflowAPISettle(Breaker, o, now) IN
  IF s.throw # <<>>
  THEN Returns(r, activeUploads, db, s.b, reqIp[r], Caught(s.throw),
               fault, 0)
  ELSE IF call[r][3 - k] = "ok"
  THEN Returns(r, activeUploads, db, s.b, reqIp[r], Decide(m1, m2, env),
               fault, 0)
  ELSE Suspends(r, activeUploads, db, s.b, 0)

-----------------------------------------------------------------------------
(* The actions: a run applied to the state.  (\E run \in {e} names the    *)
(* value of e.)                                                           *)

Apply(r, run) ==
  /\ run.out.log = "success" => db.detections[reqIp[r]] < MaxDetections
  /\ activeUploads' = run.au
  /\ db' = run.db
  /\ apiFailureCount' = run.b.count
  /\ circuitOpen' = run.b.open
  /\ lastFailureTime' = run.b.last
  /\ UNCHANGED <<env, now>>

(* Date.now() advances. *)
Tick ==
  /\ now + TickMs <= MaxTime
  /\ now' = now + TickMs
  /\ UNCHANGED <<env, activeUploads, apiFailureCount, circuitOpen,
                 lastFailureTime, db, pc, reqIp, call, orphans>>

DetectWith(r, in) ==
  \E run \in {DetectRun(r, in)} :
  /\ pc[r] = "idle"
  /\ Apply(r, run)
  /\ pc' = [pc EXCEPT ![r] = IF run.done THEN "idle" ELSE "optimizing"]
  /\ reqIp' = [reqIp EXCEPT ![r] = IF run.done THEN 0 ELSE in.ip]
  /\ UNCHANGED <<call, orphans>>

(* Idle requests are interchangeable: the next one to arrive takes the    *)
(* least idle identity.                                                   *)
DetectIn(r, inputs) ==
  /\ pc[r] = "idle"
  /\ \A q \in Requests : q < r => pc[q] # "idle"
  /\ \E in \in inputs : DetectWith(r, in)

StartCalls(r) ==
  \E run \in {StartCallsRun(r)} :
  /\ pc[r] = "optimizing"
  /\ InFlight + run.issued <= MaxInFlight
  /\ Apply(r, run)
  /\ pc' = [pc EXCEPT ![r] = IF run.done THEN "idle" ELSE "awaiting"]
  /\ reqIp' = [reqIp EXCEPT ![r] = IF run.done THEN 0 ELSE @]
  /\ call' = [call EXCEPT ![r] = IF run.done THEN NoCalls
                                 ELSE [k \in 1..2 |-> "pending"]]
  /\ orphans' = orphans + (IF run.done THEN run.issued ELSE 0)

CallReturnWith(r, k, o, m1, m2, fault) ==
  \E run \in {CallReturnRun(r, k, o, m1, m2, fault)} :
  /\ pc[r] = "awaiting"
  /\ call[r][k] = "pending"
  /\ Apply(r, run)
  /\ pc' = [pc EXCEPT ![r] = IF run.done THEN "idle" ELSE @]
  /\ reqIp' = [reqIp EXCEPT ![r] = IF run.done THEN 0 ELSE @]
  /\ call' = [call EXCEPT ![r] = IF run.done THEN NoCalls
                                 ELSE [@ EXCEPT ![k] = "ok"]]
  /\ orphans' = orphans + (IF run.done /\ call[r][3 - k] = "pending"
                           THEN 1 ELSE 0)

(* The data and the fault matter only when this call completes the pair. *)
CallReturnIn(r, k, outcomes, data1, data2, faults) ==
  /\ pc[r] = "awaiting"
  /\ call[r][k] = "pending"
  /\ \E o \in outcomes :
       IF callRoboflowAPISettle(Breaker, o, now).throw # <<>>
          \/ call[r][3 - k] # "ok"
       THEN CallReturnWith(r, k, o, Null, Null, "none")
       ELSE \E m1 \in data1, m2 \in data2, fault \in faults :
              CallReturnWith(r, k, o, m1, m2, fault)

(* Mutant of lines 240-261: the call of a handler that has returned is    *)
(* cancelled, so that the breaker does not see its result.                *)
OrphanReturnWithCancelled(o) ==
  /\ orphans > 0
  /\ orphans' = orphans - 1
  /\ UNCHANGED <<env, now, activeUploads, apiFailureCount, circuitOpen,
                 lastFailureTime, db, pc, reqIp, call>>

(* Lines 240-284 for a call whose handler has returned: Promise.all has   *)
(* settled, so only the breaker sees the result.                          *)
OrphanReturnWith(o) ==
  \E s \in {callRoboflowAPISettle(Breaker, o, now)} :
  /\ orphans > 0
  /\ apiFailureCount' = s.b.count
  /\ circuitOpen' = s.b.open
  /\ lastFailureTime' = s.b.last
  /\ orphans' = orphans - 1
  /\ UNCHANGED <<env, now, activeUploads, db, pc, reqIp, call>>

OrphanReturnIn(outcomes) == \E o \in outcomes : OrphanReturnWith(o)

Detect(r) == DetectIn(r, DetectInputs)

CallReturn(r, k) ==
  CallReturnIn(r, k, TransportOutcomes, Model1Data, Model2Data, LogFaults)

OrphanReturn == OrphanReturnIn(TransportOutcomes)

Next ==
  \/ Tick
  \/ \E r \in Requests : Detect(r)
  \/ \E r \in Requests : StartCalls(r)
  \/ \E r \in Requests, k \in 1..2 : CallReturn(r, k)
  \/ OrphanReturn

Spec == Init /\ [][Next]_vars

-----------------------------------------------------------------------------
(* Admission and the ledger: every input of the handler and every fault   *)
(* of the ledger, with a transport that answers 200 or times out, at one  *)
(* instant (the breaker opens and never cools down).                      *)

AdmissionOutcomes ==
  { o \in TransportOutcomes :
      \/ o.kind = "response" /\ o.status = 200
      \/ o.kind = "error" /\ o.code = "ECONNABORTED" }

NextAdmission ==
  \/ \E r \in Requests : Detect(r)
  \/ \E r \in Requests : StartCalls(r)
  \/ \E r \in Requests, k \in 1..2 :
       CallReturnIn(r, k, AdmissionOutcomes, Model1Data, Model2Data,
                    LogFaults)
  \/ OrphanReturnIn(AdmissionOutcomes)

SpecAdmission == Init /\ [][NextAdmission]_vars

(* The breaker: time passes and the transport answers 200, answers 429,   *)
(* times out or resets, with a healthy ledger and requests that bring a   *)
(* file, valid parameters and an image the primary model finds nothing    *)
(* in, so that the ledger stays as it is.                                 *)

BreakerInputs ==
  { in \in DetectInputs :
      in.usage = "none" /\ in.rate = "none" /\ in.file /\ in.valid }

BreakerOutcomes ==
  { o \in TransportOutcomes :
      \/ o.kind = "response" /\ o.status \in {200, 429}
      \/ o.kind = "error" /\ o.code \in {"ECONNABORTED", "ECONNRESET"} }

NextBreaker ==
  \/ Tick
  \/ \E r \in Requests : DetectIn(r, BreakerInputs)
  \/ \E r \in Requests : StartCalls(r)
  \/ \E r \in Requests, k \in 1..2 :
       CallReturnIn(r, k, BreakerOutcomes, {Data(<<>>, TRUE)},
                    {Data(<<>>, TRUE)}, {"none"})
  \/ OrphanReturnIn(BreakerOutcomes)

SpecBreaker == Init /\ [][NextBreaker]_vars

(* The same with the scheduling of the event loop: the continuation of a  *)
(* handler that awaits optimizeImage runs (strongly fair, since only the  *)
(* bound on the calls in flight can disable it), and every call handed to *)
(* axios settles, by its answer or by its timeout (lines 220-221, 233).   *)
FairBreaker ==
  /\ \A r \in Requests : SF_vars(StartCalls(r))
  /\ \A r \in Requests, k \in 1..2 :
       WF_vars(CallReturnIn(r, k, BreakerOutcomes, {Data(<<>>, TRUE)},
                            {Data(<<>>, TRUE)}, {"none"}))
  /\ WF_vars(OrphanReturnIn(BreakerOutcomes))

SpecBreakerFair == SpecBreaker /\ FairBreaker


(* The decision: requests arrive one at a time with a file and valid      *)
(* parameters, the ledger is healthy, the transport answers 200 or times  *)
(* out, the two thresholds of the environment take every value of         *)
(* ThresholdValues and the models answer with every pair of DecisionData1 *)
(* and DecisionData2.                                                     *)

KNOTTED == <<"K","n","o","t","t","e","d">>

(* parseFloat(process.env.MODEL_x_THRESHOLD): unset, "0", "0.3", "0.9". *)
ThresholdValues == {Unset, 0, 3000, 9000}

DecisionEnvs ==
  { [apiKey |-> TRUE, model1Url |-> TRUE, model2Url |-> TRUE,
     t1 |-> a, t2 |-> b] : a \in ThresholdValues, b \in ThresholdValues }

DecisionData1 ==
  (Model1Data \ {Null})
  \cup { Data(<<Pred(CALAMANSI, 5000)>>, TRUE),
         Data(<<Pred(CALAMANSI, 9500)>>, TRUE),
         Data(<<Pred(NOT_CALAMANSI, 7000)>>, TRUE),
         Data(<<Pred(KNOTTED, 2000)>>, TRUE) }

DecisionData2 ==
  { m \in Model2Data : m.image }
  \cup { Data(<<Pred(LEAF_SPOT, 5000)>>, TRUE),
         Data(<<Pred(LEAF_SPOT, 3000), Pred(LEAF_SPOT, 3500),
                Pred(LEAF_SPOT, 4000), Pred(LEAF_SPOT, 4500),
                Pred(LEAF_SPOT, 5000), Pred(CALAMANSI, 9500)>>, TRUE) }

(* Lines 516-523: model2Data.predictions.slice(0, 5), entry by entry. *)
allPredictions(preds) ==
  SubSeq(preds, 1, IF Len(preds) < 5 THEN Len(preds) ELSE 5)

(* Lines 156-159: the bodies detectionSchema accepts (each field absent,  *)
(* or a number of [0, 1]).                                                *)
RequestParams ==
  [confidence1 : {Unset, 0, 3000, 9000}, confidence2 : {Unset, 0, 3000, 9000}]

InitDecision ==
  /\ env \in DecisionEnvs
  /\ now = 0
  /\ activeUploads = {}
  /\ apiFailureCount = 0
  /\ circuitOpen = FALSE
  /\ lastFailureTime = 0
  /\ db = [total_calls |-> 0, detections |-> [i \in Ips |-> 0],
           blocked |-> [i \in Ips |-> FALSE]]
  /\ pc = [r \in Requests |-> "idle"]
  /\ reqIp = [r \in Requests |-> 0]
  /\ call = [r \in Requests |-> NoCalls]
  /\ orphans = 0

DetectAlone(r, inputs) ==
  /\ \A q \in Requests : pc[q] = "idle"
  /\ DetectIn(r, inputs)

NextDecision ==
  \/ \E r \in Requests : DetectAlone(r, BreakerInputs)
  \/ \E r \in Requests : StartCalls(r)
  \/ \E r \in Requests, k \in 1..2 :
       CallReturnIn(r, k, AdmissionOutcomes, DecisionData1, DecisionData2,
                    {"none"})
  \/ OrphanReturnIn(AdmissionOutcomes)

SpecDecision == InitDecision /\ [][NextDecision]_vars


-----------------------------------------------------------------------------
(* Properties.  A property of a run is stated for every request that can  *)
(* make the run in the state at hand and for every input of the run.      *)

RequestsInFlight == {r \in Requests : pc[r] # "idle"}

(* C1: in every reachable state the number of entries of activeUploads is *)
(* at most the capacity ceiling.                                          *)
C1_SlotsWithinCeiling ==
  Cardinality(activeUploads) <= MAX_CONCURRENT_UPLOADS

C1_Witness ==
  /\ Cardinality(activeUploads) = MAX_CONCURRENT_UPLOADS
  /\ \A r \in activeUploads : pc[r] = "awaiting"

(* What C2 asks of a run that returns, capacity rejection included or not. *)
PairedExit(run) == run.acquired /\ run.released

(* The exits of a request that was admitted: lines 418-423 and the catch  *)
(* block in StartCallsRun, the decision and the catch block in            *)
(* CallReturnRun.                                                         *)
AdmittedExitsPaired ==
  /\ \A r \in Requests : pc[r] = "optimizing" =>
       LET run == StartCallsRun(r) IN
       IF run.done THEN PairedExit(run) /\ r \notin run.au ELSE r \in run.au
  /\ \A r \in Requests, k \in 1..2 :
       pc[r] = "awaiting" /\ call[r][k] = "pending" =>
         \A o \in AdmissionOutcomes, m1 \in Model1Data, m2 \in Model2Data,
            fault \in LogFaults :
           LET run == CallReturnRun(r, k, o, m1, m2, fault) IN
           IF run.done THEN PairedExit(run) /\ r \notin run.au ELSE r \in run.au
  /\ (RequestsInFlight = {} => activeUploads = {})

(* C2 as stated: on every exit path of the handler, capacity rejection    *)
(* included, the request has acquired one slot and released one slot, and *)
(* no slot is held once no request is in flight.                          *)
C2_EveryExitAcquiresAndReleases ==
  /\ \A r \in Requests : pc[r] = "idle" =>
       \A in \in DetectInputs :
         LET run == DetectRun(r, in) IN run.done => PairedExit(run)
  /\ AdmittedExitsPaired

(* C2, amended: a request rejected for capacity acquires no slot and      *)
(* releases none; on every other exit path the request has acquired one   *)
(* slot and released it; a request holds its slot exactly while its       *)
(* handler is in flight, so no slot is held once no request is in flight. *)
C2_ExitsPairedButCapacity ==
  /\ \A r \in Requests : pc[r] = "idle" =>
       \A in \in DetectInputs :
         LET run == DetectRun(r, in) IN
         IF ~run.done THEN r \in run.au
         ELSE IF run.out.type = "capacity_error"
         THEN ~run.acquired /\ ~run.released /\ run.au = activeUploads
         ELSE PairedExit(run) /\ r \notin run.au
  /\ AdmittedExitsPaired
  /\ activeUploads = RequestsInFlight

C2_Witness ==
  /\ RequestsInFlight = {}
  /\ activeUploads = {}
  /\ \E i \in Ips : db.detections[i] > 0

(* C3: while the requests in flight are as many as the ceiling, a further *)
(* request is answered capacity_error in the run that receives it, with   *)
(* no upstream call and nothing changed; while they are fewer, a further  *)
(* request passes the capacity check and takes a slot.                    *)
C3_LoadShedding ==
  \A r \in Requests : pc[r] = "idle" =>
    \A in \in DetectInputs :
      LET run == DetectRun(r, in) IN
      /\ Cardinality(RequestsInFlight) = MAX_CONCURRENT_UPLOADS =>
           /\ run.done
           /\ run.out.type = "capacity_error"
           /\ run.issued = 0
           /\ run.au = activeUploads /\ run.db = db /\ run.b = Breaker
      /\ Cardinality(RequestsInFlight) < MAX_CONCURRENT_UPLOADS =>
           run.out.type # "capacity_error" /\ run.acquired

C3_Witness ==
  /\ Cardinality(RequestsInFlight) = MAX_CONCURRENT_UPLOADS
  /\ \E r \in Requests : pc[r] = "idle"
  /\ orphans > 0

C5_BudgetRejectionTakesNoSlot ==
  \A r \in Requests : pc[r] = "idle" =>
    \A in \in DetectInputs :
      LET run == DetectRun(r, in) IN
      run.out.type = "api_limit_error" => ~run.acquired

(* C5, amended: the daily budget is consulted after the slot is acquired: *)
(* a request answered api_limit_error has acquired a slot and released it *)
(* in the same run, so that the map is after the run as it was before it. *)
C5_BudgetRejectionReturnsItsSlot ==
  \A r \in Requests : pc[r] = "idle" =>
    \A in \in DetectInputs :
      LET run == DetectRun(r, in) IN
      run.out.type = "api_limit_error" =>
        /\ run.done /\ run.acquired /\ run.released
        /\ run.au = activeUploads
        /\ run.issued = 0

C5_Witness ==
  /\ activeUploads # {}
  /\ \E r \in Requests, in \in DetectInputs :
       pc[r] = "idle" /\ DetectRun(r, in).out.type = "api_limit_error"


-----------------------------------------------------------------------------
(* The breaker. *)

CIRCUIT_OPEN_MESSAGE ==
  <<"Service temporarily unavailable - too many failures">>

(* A call settles in this state: one of a request, or an orphan. *)
SomeCallInFlight == InFlight > 0

(* C6: a closed breaker has counted fewer than 5 failures, and a call     *)
(* that settles while it is closed, of either endpoint, opens it exactly  *)
(* when it fails and is the 5th failure counted since the last success;   *)
(* each failure counts for one on the one counter.                        *)
C6_OpensAtFifthFailure ==
  /\ ~circuitOpen => apiFailureCount < 5
  /\ SomeCallInFlight =>
       \A o \in TransportOutcomes :
         LET s == callRoboflowAPISettle(Breaker, o, now) IN
         /\ s.throw # <<>> => s.b.count = apiFailureCount + 1
         /\ ~circuitOpen =>
              (s.b.open <=> (s.throw # <<>> /\ apiFailureCount + 1 = 5))

C6_Witness ==
  /\ circuitOpen
  /\ apiFailureCount = 5
  /\ lastFailureTime = now

(* C7: while the circuit is open and less than the cooldown has elapsed   *)
(* since the last recorded failure, the two call attempts of a request    *)
(* throw the circuit-open error in the run that makes them: the handler   *)
(* fails with it, no request is handed to axios and the breaker is left   *)
(* as it was.                                                             *)
C7_OpenCircuitFailsFast ==
  \A r \in Requests :
    /\ pc[r] = "optimizing"
    /\ env.model1Url /\ env.model2Url
    /\ circuitOpen /\ now - lastFailureTime < 60000
    => LET run == StartCallsRun(r) IN
       /\ run.done
       /\ run.out.type = "server_error"
       /\ run.out.error = CIRCUIT_OPEN_MESSAGE
       /\ run.issued = 0
       /\ run.b = Breaker

C7_Witness ==
  /\ circuitOpen
  /\ now - lastFailureTime > 0
  /\ now - lastFailureTime < 60000
  /\ \E r \in Requests : pc[r] = "optimizing"

(* The step is a run of lines 410-432 for some request. *)
CallsAttempted ==
  \E r \in Requests : pc[r] = "optimizing" /\ pc'[r] # "optimizing"

(* C8: the circuit closes only in a step that attempts calls, at least    *)
(* 60 s after the last recorded failure; and a step that attempts calls   *)
(* on an open circuit that long after the last failure sets the counter   *)
(* to 0, closes the circuit and hands both calls to the network.          *)
C8_ClosesLazily ==
  [][ /\ circuitOpen /\ ~circuitOpen' =>
           /\ CallsAttempted
           /\ now - lastFailureTime >= 60000
           /\ apiFailureCount' = 0
      /\ circuitOpen /\ CallsAttempted /\ now - lastFailureTime >= 60000 =>
           /\ ~circuitOpen'
           /\ apiFailureCount' = 0
           /\ \E r \in Requests :
                /\ pc[r] = "optimizing" /\ pc'[r] = "awaiting"
                /\ \A k \in 1..2 : call'[r][k] = "pending"
    ]_vars

C8_Witness ==
  /\ circuitOpen
  /\ now - lastFailureTime >= 60000
  /\ \E r \in Requests : pc[r] = "optimizing"

(* C9: a call that settles with success, in any state of the breaker,     *)
(* leaves the counter at 0 and circuitOpen and lastFailureTime as they    *)
(* were.                                                                  *)
C9_SuccessOnlyResetsCounter ==
  SomeCallInFlight =>
    \A o \in TransportOutcomes :
      LET s == callRoboflowAPISettle(Breaker, o, now) IN
      s.throw = <<>> =>
        /\ s.b.count = 0
        /\ s.b.open = circuitOpen
        /\ s.b.last = lastFailureTime

C9_Witness ==
  /\ circuitOpen
  /\ apiFailureCount = 0

(* The error kinds of the specification, by the message thrown. *)
ErrorKind(message) ==
  IF message = <<"Request timeout">> THEN "TimeoutError"
  ELSE IF message \in {<<"DNS lookup failed">>, <<"Connection refused">>}
  THEN "UnreachableError"
  ELSE IF message = <<"API rate limit exceeded">> THEN "UpstreamRateLimited"
  ELSE IF message = <<"Authentication failed">> THEN "AuthError"
  ELSE IF message = <<"Invalid image data">> THEN "InvalidInput"
  ELSE IF message[1] = "API request failed with status "
  THEN "UpstreamError"
  ELSE IF message[1] = "Network error - " THEN "NetworkError"
  ELSE "Other"

(* C10: a response is classified by its status: 429 UpstreamRateLimited,  *)
(* 401 and 403 AuthError, 400 InvalidInput, any other status outside      *)
(* 200..299 UpstreamError with the status, and NetworkError only for a    *)
(* transport failure without a response.                                  *)
C10_ClassifiedByStatus ==
  \A o \in TransportOutcomes :
    LET thrown == callRoboflowAPISettle(Breaker, o, now).throw
        kind == ErrorKind(thrown)
    IN
    /\ o.kind = "response" /\ o.status = 429 => kind = "UpstreamRateLimited"
    /\ o.kind = "response" /\ o.status \in {401, 403} => kind = "AuthError"
    /\ o.kind = "response" /\ o.status = 400 => kind = "InvalidInput"
    /\ o.kind = "response" /\ o.status \notin 200..299
         /\ o.status \notin {400, 401, 403, 429} =>
           thrown = <<"API request failed with status ", ToString(o.status)>>
    /\ thrown # <<>> /\ kind = "NetworkError" => o.kind = "error"


-----------------------------------------------------------------------------
(* The client and the fan-out. *)

(* C11: a call that settles with an error, whatever its classification,   *)
(* adds one to the shared failure counter and a call that settles with    *)
(* success sets it to 0; a call that fails for configuration (no API key, *)
(* or the handler finding a model URL unset) goes to no network and       *)
(* leaves the counter, and the whole breaker, as it was.                  *)
C11_ErrorsCountButConfigErrors ==
  /\ \A r \in Requests :
       pc[r] = "optimizing" /\ (~env.apiKey \/ ~env.model1Url \/ ~env.model2Url)
       => LET run == StartCallsRun(r) IN
          /\ run.done
          /\ run.issued = 0
          /\ run.b = Breaker
          /\ env.model1Url /\ env.model2Url =>
               run.out.error = <<"API key not configured">>
  /\ SomeCallInFlight =>
       \A o \in TransportOutcomes :
         LET s == callRoboflowAPISettle(Breaker, o, now) IN
         IF s.throw = <<>> THEN s.b.count = 0
                           ELSE s.b.count = apiFailureCount + 1

C11_Witness ==
  /\ apiFailureCount >= 2
  /\ ~circuitOpen
  /\ SomeCallInFlight

(* C12: the handler hands both requests to axios in one run, or none; a   *)
(* call that fails makes the handler answer with that call's error in the *)
(* run in which it settles, the other call pending or not; a call that    *)
(* succeeds leaves the handler waiting while the other is pending, and    *)
(* ends it with the decision on the two response.data when the other has  *)
(* succeeded.                                                             *)
C12_FirstFailureWins ==
  /\ \A r \in Requests : pc[r] = "optimizing" =>
       LET run == StartCallsRun(r) IN
       IF run.done THEN run.issued = 0 ELSE run.issued = 2
  /\ \A r \in Requests, k \in 1..2 :
       pc[r] = "awaiting" /\ call[r][k] = "pending" =>
         \A o \in TransportOutcomes :
           LET s == callRoboflowAPISettle(Breaker, o, now)
               run == CallReturnRun(r, k, o, Null, Null, "none")
           IN
           IF s.throw # <<>>
           THEN /\ run.done
                /\ run.out.type = "server_error"
                /\ run.out.error = s.throw
           ELSE IF call[r][3 - k] = "pending"
           THEN ~run.done
           ELSE \A m1 \in Model1Data, m2 \in Model2Data :
                  LET join == CallReturnRun(r, k, o, m1, m2, "none") IN
                  join.done /\ join.out = Decide(m1, m2, env)

C12_Witness ==
  /\ orphans > 0
  /\ \E r \in Requests :
       pc[r] = "awaiting" /\ call[r][1] = "pending" /\ call[r][2] = "ok"


-----------------------------------------------------------------------------
(* The decision.  The checks as the specification lists them, on the top  *)
(* entry as it defines it: the highest confidence, the earliest of equals. *)

TopIndex(preds) ==
  CHOOSE i \in 1..Len(preds) :
    \A j \in 1..Len(preds) :
      \/ preds[j].confidence < preds[i].confidence
      \/ preds[j].confidence = preds[i].confidence /\ i <= j

NegativeClass(label) == includes(toLowerCase(label), NOT)

SecondaryChecks(m2, th2) ==
  IF Len(m2.predictions) = 0 THEN "no_predictions_2"
  ELSE IF m2.predictions[TopIndex(m2.predictions)].confidence < th2
  THEN "low_confidence_2"
  ELSE "accepted"

FirstFailingCheck(m1, m2, th1, th2) ==
  IF Len(m1.predictions) = 0 THEN "no_predictions_1"
  ELSE
  LET top == m1.predictions[TopIndex(m1.predictions)] IN
  IF NegativeClass(top.class) /\ top.confidence > 7000 THEN "not_calamansi"
  ELSE IF ~NegativeClass(top.class) /\ top.confidence < th1
  THEN "low_confidence_1"
  ELSE SecondaryChecks(m2, th2)

(* The second call of a request is about to return. *)
JoinEnabled(r, k) ==
  pc[r] = "awaiting" /\ call[r][k] = "pending" /\ call[r][3 - k] = "ok"

Ok200 == [kind |-> "response", status |-> 200, code |-> "", name |-> ""]

(* C13: when both calls have succeeded with well-formed prediction sets,  *)
(* the handler answers with the first check that fails in the order no    *)
(* primary prediction, negative class, low primary confidence, no         *)
(* secondary prediction, low secondary confidence, whatever the later     *)
(* checks would say, and accepts exactly when none fails.                 *)
C13_FirstFailingCheckDecides ==
  \A r \in Requests, k \in 1..2 : JoinEnabled(r, k) =>
    \A m1 \in DecisionData1, m2 \in DecisionData2 :
      LET run == CallReturnRun(r, k, Ok200, m1, m2, "none") IN
      /\ run.done
      /\ run.out.type =
           FirstFailingCheck(m1, m2, threshold(env.t1), threshold(env.t2))
      /\ run.out.log = IF run.out.type = "accepted" THEN "success"
                                                    ELSE "failure"

C13_Witness ==
  /\ env.t1 = 9000 /\ env.t2 = 3000
  /\ \E r \in Requests, k \in 1..2 :
       /\ JoinEnabled(r, k)
       /\ \E m1 \in DecisionData1, m2 \in DecisionData2 :
            /\ Len(m2.predictions) = 0
            /\ CallReturnRun(r, k, Ok200, m1, m2, "none").out.type
                 = "low_confidence_1"

(* C14: a top label is negative-class when its lowercased text contains   *)
(* "not"; the answer is not_calamansi exactly when the top label is       *)
(* negative-class with confidence above 0.70; the primary threshold       *)
(* rejects only labels that are not negative-class; a negative-class top  *)
(* label at or below 0.70 is answered by the secondary checks alone,      *)
(* whatever the primary threshold.                                        *)
C14_NegativeClassRule ==
  \A r \in Requests, k \in 1..2 : JoinEnabled(r, k) =>
    \A m1 \in DecisionData1, m2 \in DecisionData2 :
      Len(m1.predictions) > 0 =>
        LET top == m1.predictions[TopIndex(m1.predictions)]
            type == CallReturnRun(r, k, Ok200, m1, m2, "none").out.type
        IN
        /\ type = "not_calamansi"
             <=> (NegativeClass(top.class) /\ top.confidence > 7000)
        /\ type = "low_confidence_1" => ~NegativeClass(top.class)
        /\ NegativeClass(top.class) /\ top.confidence <= 7000 =>
             type = SecondaryChecks(m2, threshold(env.t2))

C14_Witness ==
  /\ env.t1 = 9000
  /\ \E r \in Requests, k \in 1..2 :
       /\ JoinEnabled(r, k)
       /\ \E m1 \in DecisionData1, m2 \in DecisionData2 :
            /\ m1.predictions = <<Pred(KNOTTED, 2000)>>
            /\ CallReturnRun(r, k, Ok200, m1, m2, "none").out.type
                 = "accepted"

(* The threshold the specification puts in force for a request. *)
Override(param) == IF param = Unset THEN 5000 ELSE param

(* C15: the thresholds of the decision are the overrides of the request's *)
(* parameters when given (0 included) and 0.50 otherwise, and a           *)
(* confidence equal to the threshold is not rejected as low.              *)
C15_ThresholdsFromRequest ==
  \A r \in Requests, k \in 1..2 : JoinEnabled(r, k) =>
    \A body \in RequestParams, m1 \in DecisionData1, m2 \in DecisionData2 :
      CallReturnRun(r, k, Ok200, m1, m2, "none").out.type
        = FirstFailingCheck(m1, m2, Override(body.confidence1),
                            Override(body.confidence2))

(* The entries the specification lists: the 5 of highest confidence, the  *)
(* earlier of equals first; and the entries the response carries.         *)
Rank(preds, i) ==
  Cardinality({ j \in 1..Len(preds) :
                  \/ preds[j].confidence > preds[i].confidence
                  \/ preds[j].confidence = preds[i].confidence /\ j < i })

TopFive(preds) == { i \in 1..Len(preds) : Rank(preds, i) < 5 }

Carried(preds) ==
  { i \in 1..Len(preds) :
      \E n \in 1..Len(allPredictions(preds)) : allPredictions(preds)[n] = preds[i] }

(* C16: an accepted answer lists the (at most) 5 entries of the secondary *)
(* prediction set with the highest confidence, wherever they sit in the   *)
(* response.                                                              *)
C16_CandidatesAreTopFive ==
  \A r \in Requests, k \in 1..2 : JoinEnabled(r, k) =>
    \A m1 \in DecisionData1, m2 \in DecisionData2 :
      CallReturnRun(r, k, Ok200, m1, m2, "none").out.type = "accepted" =>
        Carried(m2.predictions) = TopFive(m2.predictions)


-----------------------------------------------------------------------------
(* The ledger. *)

(* C17: every run in which the handler returns (admission rejections,     *)
(* validation exits, decision rejections, acceptance and failures) has    *)
(* made exactly one logDetection call for the request.                    *)
C17_EveryOutcomeRecordedOnce ==
  /\ \A r \in Requests : pc[r] = "idle" =>
       \A in \in DetectInputs :
         LET run == DetectRun(r, in) IN run.done => run.logs = 1
  /\ \A r \in Requests : pc[r] = "optimizing" =>
       LET run == StartCallsRun(r) IN run.done => run.logs = 1
  /\ \A r \in Requests, k \in 1..2 :
       pc[r] = "awaiting" /\ call[r][k] = "pending" =>
         \A o \in AdmissionOutcomes, m1 \in Model1Data, m2 \in Model2Data :
           LET run == CallReturnRun(r, k, o, m1, m2, "none") IN
           run.done => run.logs = 1

(* C18: within the day total_calls never decreases, and it grows by       *)
(* exactly one in the run that completes a fan-out whose two calls both   *)
(* succeeded, whether the decision accepts or rejects.                    *)
C18_CounterCountsPairs ==
  /\ \A r \in Requests : pc[r] = "idle" =>
       \A in \in DetectInputs :
         DetectRun(r, in).db.total_calls >= db.total_calls
  /\ \A r \in Requests, k \in 1..2 : JoinEnabled(r, k) =>
       \A m1 \in Model1Data \ {Null}, m2 \in {m \in Model2Data : m.image} :
         CallReturnRun(r, k, Ok200, m1, m2, "none").db.total_calls
           = db.total_calls + 1

(* C19: when the statements of checkRateLimit throw, the request is not   *)
(* rejected for the window limit and the ledger is left as it is: the     *)
(* run is the run of a request the check allows, and a request with a     *)
(* free slot, budget left, a file and valid parameters goes on to the     *)
(* upstream calls, whatever the ledger holds for its address.             *)
C19_WindowCheckFailsOpen ==
  \A r \in Requests : pc[r] = "idle" =>
    \A in \in DetectInputs : in.rate = "error" =>
      LET run == DetectRun(r, in)
          healthy == DetectRun(r, [in EXCEPT !.rate = "none"])
      IN
      /\ run.out.type # "rate_limit_error"
      /\ run.db = db
      /\ healthy.out.type # "rate_limit_error" => run = healthy
      /\ /\ Cardinality(activeUploads) < MAX_CONCURRENT_UPLOADS
         /\ in.usage = "error" \/ db.total_calls < DAILY_API_LIMIT
         /\ in.file /\ in.valid
         => ~run.done /\ r \in run.au

C19_Witness ==
  /\ \E i \in Ips : db.detections[i] >= RATE_LIMIT_MAX /\ ~db.blocked[i]
  /\ db.total_calls < DAILY_API_LIMIT
  /\ Cardinality(activeUploads) < MAX_CONCURRENT_UPLOADS
  /\ \E r \in Requests : pc[r] = "idle"

(* C20: a fault of the statements of logDetection, at the insert or at    *)
(* the increment, leaves the run of the handler as it is without the      *)
(* fault: the same response, the same slot released, the same breaker.    *)
C20_AuditFaultKeepsOutcome ==
  \A r \in Requests, k \in 1..2 :
    pc[r] = "awaiting" /\ call[r][k] = "pending" =>
      \A o \in AdmissionOutcomes, fault \in LogFaults :
        \A m1 \in IF JoinEnabled(r, k) THEN Model1Data ELSE {Null},
           m2 \in IF JoinEnabled(r, k) THEN Model2Data ELSE {Null} :
          LET run == CallReturnRun(r, k, o, m1, m2, fault)
              written == CallReturnRun(r, k, o, m1, m2, "none")
          IN
          /\ run.done = written.done
          /\ run.out = written.out
          /\ run.au = written.au
          /\ run.b = written.b

C20_Witness ==
  /\ \E i \in Ips :
       db.detections[i] > 0 /\ db.total_calls < 2 * db.detections[i]
  /\ \E r \in Requests, k \in 1..2 : JoinEnabled(r, k)


-----------------------------------------------------------------------------
(* The window limit. *)

(* The ledger with the rows of an address that are in the window set to   *)
(* c (rows leave the window as time passes) and its block flag to f.      *)
LedgerWith(ip, c, f) ==
  [db EXCEPT !.detections[ip] = c, !.blocked[ip] = f]

(* C21: a check that runs to its end denies an address whose count in the *)
(* window is at or above the ceiling and allows one below it that is not  *)
(* blocked; at or above twice the ceiling it also sets the block flag,    *)
(* and below it leaves the flag; a blocked address is denied whatever its *)
(* count, and no step clears the flag.                                    *)
C21_WindowLimitEscalates ==
  /\ \A ip \in Ips, c \in 0..(MaxDetections + 1), f \in BOOLEAN :
       LET res == checkRateLimit(LedgerWith(ip, c, f), ip, RATE_LIMIT_MAX,
                                 "none")
       IN
       /\ res.allowed <=> (c < RATE_LIMIT_MAX /\ ~f)
       /\ res.db.blocked[ip] <=> (f \/ c >= 2 * RATE_LIMIT_MAX)
       /\ res.db.detections = LedgerWith(ip, c, f).detections
  /\ \A r \in Requests : pc[r] = "idle" =>
       \A in \in DetectInputs :
         LET run == DetectRun(r, in) IN
         /\ db.blocked[in.ip] => run.db.blocked[in.ip]
         /\ db.blocked[in.ip] /\ in.rate = "none" =>
              run.done /\ run.out.type
                \in {"capacity_error", "api_limit_error", "rate_limit_error"}

C21_Witness ==
  /\ \E i \in Ips : db.blocked[i] /\ db.detections[i] >= 2 * RATE_LIMIT_MAX
  /\ db.total_calls < DAILY_API_LIMIT
  /\ activeUploads = {}


-----------------------------------------------------------------------------
(* The answer to a failure. *)

GenericMessages ==
  { "The request took too long. Please try again.",
    "Service limit reached. Please try again in a moment.",
    "Service temporarily unavailable.",
    "Invalid image format. Please try a different image.",
    "Cannot reach detection service.",
    "Detection service not responding.",
    "Service configuration error.",
    "Service temporarily unavailable. Please try again in a minute.",
    "An error occurred during processing." }

(* The text sent for a failure is generic and no part of the error. *)
SafeAnswer(out) ==
  /\ sanitizeError(out.error) \in GenericMessages
  /\ \A n \in 1..Len(out.error) : sanitizeError(out.error) # out.error[n]

(* C22: whenever the handler answers server_error, for a call that is     *)
(* refused, for any outcome of the transport or for a malformed response, *)
(* the text it sends is one of the fixed generic messages and is no part  *)
(* of the message of the error (the upstream body, the status, the error  *)
(* code).                                                                 *)
C22_FailuresAnsweredGenerically ==
  /\ \A r \in Requests : pc[r] = "optimizing" =>
       LET run == StartCallsRun(r) IN
       run.out.type = "server_error" => SafeAnswer(run.out)
  /\ \A r \in Requests, k \in 1..2 :
       pc[r] = "awaiting" /\ call[r][k] = "pending" =>
         \A o \in TransportOutcomes :
           LET run == CallReturnRun(r, k, o, Null, Null, "none") IN
           run.out.type = "server_error" => SafeAnswer(run.out)

C22_Witness ==
  \E r \in Requests :
    /\ pc[r] = "optimizing"
    /\ StartCallsRun(r).out.type = "server_error"
    /\ sanitizeError(StartCallsRun(r).out.error)
         = "Service temporarily unavailable. Please try again in a minute."


-----------------------------------------------------------------------------
(* Every request is answered. *)

Answered(r, run) ==
  IF run.done
  THEN run.out.type \notin {"none", "unanswered"} /\ r \notin run.au
  ELSE run.out = NoOutcome /\ r \in run.au

EveryRunAnswersOrHolds ==
  /\ \A r \in Requests : pc[r] = "idle" => r \notin activeUploads
  /\ \A r \in Requests : pc[r] = "idle" =>
       \A in \in DetectInputs : Answered(r, DetectRun(r, in))
  /\ \A r \in Requests : pc[r] = "optimizing" => Answered(r, StartCallsRun(r))
  /\ \A r \in Requests, k \in 1..2 :
       pc[r] = "awaiting" /\ call[r][k] = "pending" =>
         \A o \in TransportOutcomes, fault \in LogFaults :
           /\ Answered(r, CallReturnRun(r, k, o, Null, Null, fault))
           /\ call[r][3 - k] = "ok" =>
                \A m1 \in Model1Data, m2 \in Model2Data :
                  Answered(r, CallReturnRun(r, k, o, m1, m2, fault))

(* C23: when the continuation of every handler runs and every upstream    *)
(* call settles, a request that has entered the handler is eventually     *)
(* back out of it without a slot; a run of the handler that ends it sends *)
(* one response and leaves the request without a slot, and a run that     *)
(* suspends it sends none and keeps the slot, so that no request is       *)
(* answered twice or not at all.                                          *)
C23_EveryRequestAnswersOnce ==
  /\ []EveryRunAnswersOrHolds
  /\ \A r \in Requests :
       (pc[r] # "idle") ~> (pc[r] = "idle" /\ r \notin activeUploads)

C23_Witness ==
  \E r \in Requests, q \in Requests :
    /\ r # q
    /\ pc[r] = "awaiting" /\ call[r][1] = "pending" /\ call[r][2] = "pending"
    /\ pc[q] = "optimizing"
    /\ activeUploads = {r, q}


-----------------------------------------------------------------------------
(* The top entry. *)

MaxListLen == 3

(* Prediction lists with equal and unequal confidences in every order. *)
PredictionLists ==
  UNION { [1..n -> { Pred(c, v) : c \in {CALAMANSI, LEAF_SPOT},
                                  v \in {3000, 7500} }] : n \in 1..MaxListLen }

IsFirstMaximum(preds, top) ==
  \E i \in 1..Len(preds) :
    /\ top = preds[i]
    /\ \A j \in 1..Len(preds) : preds[j].confidence <= preds[i].confidence
    /\ \A j \in 1..(i - 1) : preds[j].confidence < preds[i].confidence

(* C24: when the handler decides, the top entry of the primary and of the *)
(* secondary prediction set is an entry of the greatest confidence of the *)
(* set, and of the entries of that confidence the first of the list.      *)
C24_TopIsFirstMaximum ==
  \A r \in Requests, k \in 1..2 : JoinEnabled(r, k) =>
    /\ \A m \in DecisionData1 \cup DecisionData2 :
         Len(m.predictions) > 0 =>
           IsFirstMaximum(m.predictions, topPrediction(m.predictions))
    /\ \A preds \in PredictionLists :
         IsFirstMaximum(preds, topPrediction(preds))

C24_Witness ==
  \E r \in Requests, k \in 1..2 :
    /\ JoinEnabled(r, k)
    /\ \E m2 \in DecisionData2 :
         /\ Len(m2.predictions) = 2
         /\ m2.predictions[1].confidence = m2.predictions[2].confidence
         /\ topPrediction(m2.predictions).class = LEAF_SPOT


-----------------------------------------------------------------------------
(* The breaker between the steps of the handlers. *)

(* C25: in every state, a counter of 5 or more means an open circuit, and *)
(* every call that settles or is attempted in the state leaves it so.     *)
(* (The converse fails in the state of the witness: the circuit open and  *)
(* the counter at 0, after a call in flight has succeeded.)               *)
C25_CountedOutMeansOpen ==
  /\ apiFailureCount >= 5 => circuitOpen
  /\ SomeCallInFlight =>
       \A o \in TransportOutcomes :
         LET s == callRoboflowAPISettle(Breaker, o, now) IN
         s.b.count >= 5 => s.b.open
  /\ \A r \in Requests : pc[r] = "optimizing" =>
       LET run == StartCallsRun(r) IN run.b.count >= 5 => run.b.open

C25_Witness ==
  /\ circuitOpen
  /\ apiFailureCount = 0
  /\ CooldownActive(now - lastFailureTime)
  /\ SomeCallInFlight


(* The step settles a call that was handed to the network. *)
CallSettles ==
  \/ orphans' < orphans
  \/ \E r \in Requests, k \in 1..2 :
       call[r][k] = "pending" /\ call'[r][k] # "pending"

(* The step is an attempt refused on the open circuit. *)
AttemptRefused ==
  /\ circuitOpen /\ CooldownActive(now - lastFailureTime)
  /\ \E r \in Requests : pc[r] = "optimizing" /\ pc'[r] = "idle"

(* C26: a step in which the calls of a request are refused on the open    *)
(* circuit leaves counter, flag and time of the last failure as they      *)
(* were; the time of the last failure and the counter move up only in a   *)
(* step that settles a call handed to the network (while the circuit is   *)
(* open too, for the calls still in flight).                              *)
C26_RefusalsLeaveTheBreaker ==
  [][ /\ AttemptRefused =>
           UNCHANGED <<apiFailureCount, circuitOpen, lastFailureTime>>
      /\ (lastFailureTime' # lastFailureTime
          \/ apiFailureCount' > apiFailureCount) => CallSettles
    ]_vars

C26_Witness ==
  /\ circuitOpen
  /\ apiFailureCount > 5
  /\ now > 0 /\ lastFailureTime = now
  /\ \E r \in Requests : pc[r] = "optimizing"


(* The step settles with a failure a call of request r whose sibling is   *)
(* still in flight.                                                       *)
FirstOfPairFails(r) ==
  /\ pc[r] = "awaiting"
  /\ call[r][1] = "pending" /\ call[r][2] = "pending"
  /\ call'[r] # call[r]
  /\ apiFailureCount' = apiFailureCount + 1

(* The step settles a call whose request has returned. *)
OrphanSettles == orphans' = orphans - 1

(* C27: the step in which one call of a pair fails while its sibling is   *)
(* in flight ends the request (it returns and holds no slot) and leaves   *)
(* the sibling in flight, one more call without a request; and the step   *)
(* in which such a call settles updates the breaker as the call of a      *)
(* live request would: the counter set to 0 on success, raised by 1 and   *)
(* timed on failure.                                                      *)
C27_SiblingOutlivesItsRequest ==
  [][ /\ \A r \in Requests : FirstOfPairFails(r) =>
           /\ pc'[r] = "idle"
           /\ r \in activeUploads /\ r \notin activeUploads'
           /\ orphans' = orphans + 1
      /\ OrphanSettles =>
           \E o \in TransportOutcomes :
             [count |-> apiFailureCount', open |-> circuitOpen',
              last |-> lastFailureTime']
               = callRoboflowAPISettle(Breaker, o, now).b
    ]_vars

C27_Witness ==
  /\ orphans > 0
  /\ activeUploads = {}
  /\ apiFailureCount > 0
  /\ ~circuitOpen


(* Request r is about to attempt its calls on a circuit that is open and  *)
(* has cooled down.                                                       *)
ResetDue(r) ==
  /\ pc[r] = "optimizing"
  /\ env.apiKey /\ env.model1Url /\ env.model2Url
  /\ circuitOpen /\ ~CooldownActive(now - lastFailureTime)

FailingOutcomes ==
  { o \in TransportOutcomes :
      callRoboflowAPISettle(Breaker, o, now).throw # <<>> }

(* C28: the attempt that finds the circuit open and cooled down closes it *)
(* with the counter at 0 and hands both its calls to the network; a call  *)
(* that fails next leaves the counter at 1 and the circuit closed; and a  *)
(* closed circuit opens only in a step that brings the counter from 4 to  *)
(* 5.                                                                     *)
C28_ResetClosesFully ==
  /\ [](\A r \in Requests : ResetDue(r) =>
          LET run == StartCallsRun(r) IN
          /\ ~run.done /\ run.issued = 2
          /\ run.b.count = 0 /\ ~run.b.open
          /\ \A o \in FailingOutcomes :
               LET s == callRoboflowAPISettle(run.b, o, now) IN
               s.b.count = 1 /\ ~s.b.open)
  /\ [][~circuitOpen /\ circuitOpen' =>
          apiFailureCount = 4 /\ apiFailureCount' = 5]_vars

C28_Witness ==
  \E r \in Requests :
    /\ ResetDue(r)
    /\ apiFailureCount >= 5
    /\ \E o \in FailingOutcomes :
         callRoboflowAPISettle(StartCallsRun(r).b, o, now).b.count = 1


-----------------------------------------------------------------------------
(* The reach of the window count and of the daily counter. *)

AdmittedFrom(i) == {r \in Requests : pc[r] # "idle" /\ reqIp[r] = i}

(* The successes counted for a source and those its admitted requests can *)
(* still add.                                                             *)
WindowLoad(i) == db.detections[i] + Cardinality(AdmittedFrom(i))

WindowBound == RATE_LIMIT_MAX - 1 + MAX_CONCURRENT_UPLOADS

BudgetLoad == db.total_calls + 2 * Cardinality(RequestsInFlight)

BudgetBound == DAILY_API_LIMIT - 1 + 2 * MAX_CONCURRENT_UPLOADS

=============================================================================
